---- MODULE Spec2Model ----
(***************************************************************************)
(* Altair helpers of ethereum_consensus (src/src/altair/helpers.rs):       *)
(* participation flags, next-sync-committee sampling, participation        *)
(* queries, attestation flag matching, flag deltas and slash_validator.    *)
(*                                                                         *)
(* Balances are counted in units of 10^9 Gwei (32 is MAX_EFFECTIVE_BALANCE)*)
(* so that the integer arithmetic of the source is kept with small numbers.*)
(* Validator indices are 0-based as in the source; Vec results are TLA+    *)
(* sequences.                                                              *)
(***************************************************************************)
EXTENDS Integers, Sequences, FiniteSets, TLC

VARIABLES state, context, env, ret, pre

vars == <<state, context, env, ret, pre>>

(***************************************************************************)
(* Bounds of the model.                                                    *)
(***************************************************************************)
\* number of validators in the registry
NumValidators == 3
\* number of (counter -> random byte) entries the hash table of env fixes
MaxCounter == 4
\* how many slash_validator calls one behaviour makes
MaxSlashCalls == 2
\* stands for FAR_FUTURE_EPOCH: later than every epoch of the model
FAR_FUTURE_EPOCH == 99

ValidatorIndices == 0 .. (NumValidators - 1)

(***************************************************************************)
(* Small helpers on sequences and numbers.                                 *)
(***************************************************************************)
Max(a, b) == IF a >= b THEN a ELSE b

RECURSIVE Pow2(_)
Pow2(n) == IF n = 0 THEN 1 ELSE 2 * Pow2(n - 1)

\* integer_sqrt::IntegerSquareRoot: the largest r with r*r <= n
integer_sqrt(n) == CHOOSE r \in 0 .. n : r * r <= n /\ (r + 1) * (r + 1) > n

\* the members of a set of numbers in increasing order (iteration in index order)
RECURSIVE SortedSeq(_)
SortedSeq(S) ==
    IF S = {} THEN <<>>
    ELSE LET m == CHOOSE x \in S : \A y \in S : x <= y
         IN <<m>> \o SortedSeq(S \ {m})

RECURSIVE SumOver(_, _)
SumOver(f, S) ==
    IF S = {} THEN 0
    ELSE LET x == CHOOSE y \in S : TRUE IN f[x] + SumOver(f, S \ {x})

SeqToSet(s) == {s[k] : k \in 1 .. Len(s)}

Permutations0(n) ==
    {p \in [0 .. (n - 1) -> 0 .. (n - 1)] : \A a, b \in 0 .. (n - 1) : p[a] = p[b] => a = b}

(***************************************************************************)
(* Participation flags (u8 bitsets).                                       *)
(***************************************************************************)
TIMELY_SOURCE_FLAG_INDEX == 0
TIMELY_TARGET_FLAG_INDEX == 1
TIMELY_HEAD_FLAG_INDEX == 2
FlagIndices == {TIMELY_SOURCE_FLAG_INDEX, TIMELY_TARGET_FLAG_INDEX, TIMELY_HEAD_FLAG_INDEX}

\* a & b and a | b on unsigned integers
RECURSIVE BitAnd(_, _)
BitAnd(a, b) ==
    IF a = 0 \/ b = 0 THEN 0
    ELSE (a % 2) * (b % 2) + 2 * BitAnd(a \div 2, b \div 2)

RECURSIVE BitOr(_, _)
BitOr(a, b) ==
    IF a = 0 THEN b
    ELSE IF b = 0 THEN a
    ELSE Max(a % 2, b % 2) + 2 * BitOr(a \div 2, b \div 2)

\* let flag = 2u8.pow(flag_index); flags | flag
add_flag(flags, flag_index) ==
    LET flag == Pow2(flag_index) IN BitOr(flags, flag)

\* let flag = 2u8.pow(flag_index); flags & flag == flag
has_flag(flags, flag_index) ==
    LET flag == Pow2(flag_index) IN BitAnd(flags, flag) = flag

(***************************************************************************)
(* State accessors of the crate that helpers.rs imports.                   *)
(***************************************************************************)
get_current_epoch(s, ctx) == s.slot \div ctx.slots_per_epoch

get_previous_epoch(s, ctx) ==
    LET current_epoch == get_current_epoch(s, ctx)
    IN IF current_epoch = 0 THEN 0 ELSE current_epoch - 1

is_active_validator(v, epoch) == v.activation_epoch <= epoch /\ epoch < v.exit_epoch

\* the active validators of epoch, in index order
get_active_validator_indices(s, epoch) ==
    SortedSeq({i \in DOMAIN s.validators : is_active_validator(s.validators[i], epoch)})

\* shuffled-index(i, count, seed): fails on count = 0 or i >= count, else a
\* permutation of 0 .. count-1 fixed by the seed (env.perm)
compute_shuffled_index(index, index_count, e) ==
    IF index_count = 0 \/ index >= index_count
    THEN [ok |-> FALSE, value |-> 0]
    ELSE [ok |-> TRUE, value |-> e.perm[index]]

\* hash(seed || block)[position]: byte `position` of the 32-byte digest of the
\* block numbered `block`; env.rand fixes the digests' bytes
hash_byte(block, position, e) ==
    LET k == block * 32 + position
    IN IF k \in DOMAIN e.rand THEN e.rand[k] ELSE 0

\* active in the previous epoch, or slashed and not yet withdrawable
get_eligible_validator_indices(s, ctx) ==
    LET previous_epoch == get_previous_epoch(s, ctx)
    IN  SortedSeq({i \in DOMAIN s.validators :
            \/ is_active_validator(s.validators[i], previous_epoch)
            \/ (s.validators[i].slashed /\ previous_epoch + 1 < s.validators[i].withdrawable_epoch)})

\* finality delay = previous_epoch - finalized_checkpoint.epoch
is_in_inactivity_leak(s, ctx) ==
    get_previous_epoch(s, ctx) - s.finalized_checkpoint.epoch > ctx.min_epochs_to_inactivity_penalty

\* total-balance(state, indices): at least one increment
get_total_balance(s, indices, ctx) ==
    Max(ctx.effective_balance_increment,
        SumOver([i \in DOMAIN s.validators |-> s.validators[i].effective_balance], indices))

get_total_active_balance(s, ctx) ==
    get_total_balance(s, SeqToSet(get_active_validator_indices(s, get_current_epoch(s, ctx))), ctx)

\* block-root-at-slot(state, slot): a root of the last slots_per_historical_root
\* slots, else an error
get_block_root_at_slot(s, slot, ctx) ==
    IF slot < s.slot /\ s.slot <= slot + ctx.slots_per_historical_root
    THEN [ok |-> TRUE, value |-> s.block_roots[slot % ctx.slots_per_historical_root]]
    ELSE [ok |-> FALSE, value |-> 0]

\* block-root(state, epoch): the root at the first slot of epoch
get_block_root(s, epoch, ctx) == get_block_root_at_slot(s, epoch * ctx.slots_per_epoch, ctx)

increase_balance(s, index, delta) ==
    [s EXCEPT !.balances[index] = @ + delta]

\* a balance never goes below 0
decrease_balance(s, index, delta) ==
    [s EXCEPT !.balances[index] = IF delta > @ THEN 0 ELSE @ - delta]

\* initiate-validator-exit(state, index): nothing for a validator already
\* exiting; else the exit epoch is the end of the exit queue (one epoch later
\* when the queue's last epoch already holds churn_limit exits) and the
\* withdrawable epoch follows it by min_validator_withdrawability_delay
initiate_validator_exit(s, index, ctx) ==
    IF s.validators[index].exit_epoch # FAR_FUTURE_EPOCH THEN s
    ELSE
    LET exit_epochs == {s.validators[i].exit_epoch : i \in DOMAIN s.validators} \ {FAR_FUTURE_EPOCH}
        earliest == get_current_epoch(s, ctx) + 1 + ctx.max_seed_lookahead
        exit_queue_epoch == CHOOSE m \in exit_epochs \cup {earliest} :
                                \A x \in exit_epochs \cup {earliest} : x <= m
        exit_queue_churn ==
            Cardinality({i \in DOMAIN s.validators : s.validators[i].exit_epoch = exit_queue_epoch})
        exit_epoch == IF exit_queue_churn >= ctx.min_per_epoch_churn_limit
                      THEN exit_queue_epoch + 1 ELSE exit_queue_epoch
    IN  [s EXCEPT !.validators[index].exit_epoch = exit_epoch,
                  !.validators[index].withdrawable_epoch =
                        exit_epoch + ctx.min_validator_withdrawability_delay]

\* beacon-proposer-index(state): fails if no eligible proposer exists.  It is a
\* function of the slot, the seed and the effective balances, which env fixes:
\* env.proposer is the index, or -1 when there is none
get_beacon_proposer_index(s, ctx, e) ==
    IF e.proposer \in DOMAIN s.validators
    THEN [ok |-> TRUE, value |-> e.proposer]
    ELSE [ok |-> FALSE, value |-> 0]

\* Context::min_slashing_penalty_quotient(epoch): the quotient of the fork of
\* epoch, an error when the context defines none
min_slashing_penalty_quotient(ctx, epoch) ==
    IF ctx.min_slashing_penalty_quotient > 0
    THEN [ok |-> TRUE, value |-> ctx.min_slashing_penalty_quotient]
    ELSE [ok |-> FALSE, value |-> 0]

\* crate::altair constants used by helpers.rs
PARTICIPATION_FLAG_WEIGHTS == <<14, 26, 14>>
WEIGHT_DENOMINATOR == 64
PROPOSER_WEIGHT == 8

(***************************************************************************)
(* Results of a call: ret holds the operation last called, its arguments   *)
(* and what it returned.  kind is "Ok", "Err" (a typed error returned to   *)
(* the caller), "Panic" (the process aborts) or "Diverge" (the call never  *)
(* returns).                                                               *)
(***************************************************************************)
NoData ==
    [slot |-> 0, beacon_block_root |-> 0,
     source |-> [epoch |-> 0, root |-> 0], target |-> [epoch |-> 0, root |-> 0]]

NoCall ==
    [op |-> "none", kind |-> "none", err |-> "none",
     indices |-> <<>>, public_keys |-> <<>>, aggregate |-> <<>>,
     flags |-> <<>>, rewards |-> <<>>, penalties |-> <<>>, set |-> {},
     flag_index |-> 0, epoch |-> 0, inclusion_delay |-> 0, data |-> NoData,
     slashed_index |-> 0, whistleblower_index |-> -1, calls |-> 0]

(***************************************************************************)
(* SyncCommitteeSelector.                                                  *)
(***************************************************************************)
\* one pass through the body of the while loop with counter i: the output after
\* it, and whether compute_shuffled_index returned Ok
sample_candidate(s, ctx, e, active, i, out) ==
    LET active_validator_count == Len(active)
        shuffled_index ==
            compute_shuffled_index(i % active_validator_count, active_validator_count, e)
        candidate_index == active[shuffled_index.value + 1]
        random_byte == hash_byte(i \div 32, i % 32, e)
        effective_balance == s.validators[candidate_index].effective_balance
    IN  [ok |-> shuffled_index.ok,
         out |-> IF effective_balance * 255 >= ctx.max_effective_balance * random_byte
                 THEN Append(out, candidate_index)
                 ELSE out]

\* the counter after an iteration: `let i = 0;` is an immutable binding and the
\* loop body never assigns it
next_counter(i) == i

\* the while loop of get_next_sync_committee_indices from counter i with the
\* output out.  `i % active_validator_count` is evaluated before the call of
\* compute_shuffled_index and aborts the process when the count is 0.  The loop
\* is deterministic: an iteration that leaves (i, out) as it found them is
\* repeated forever, and the call never returns.
RECURSIVE sampling_loop(_, _, _, _, _, _)
sampling_loop(s, ctx, e, active, i, out) ==
    IF ~(Len(out) < ctx.sync_committee_size)
    THEN [kind |-> "Ok", err |-> "none", indices |-> out]
    ELSE IF Len(active) = 0
    THEN [kind |-> "Panic", err |-> "remainder with a divisor of zero", indices |-> <<>>]
    ELSE
    LET pass == sample_candidate(s, ctx, e, active, i, out)
        i2 == next_counter(i)
    IN  IF ~pass.ok
        THEN [kind |-> "Err", err |-> "shuffle out of range", indices |-> <<>>]
        ELSE IF i2 = i /\ pass.out = out
        THEN [kind |-> "Diverge", err |-> "none", indices |-> <<>>]
        ELSE sampling_loop(s, ctx, e, active, i2, pass.out)

get_next_sync_committee_indices(s, ctx, e) ==
    LET epoch == get_current_epoch(s, ctx) + 1
        active_validator_indices == get_active_validator_indices(s, epoch)
    IN  sampling_loop(s, ctx, e, active_validator_indices, 0, <<>>)

\* the rejection sampler of section 4.2 of the specification: the counter is
\* incremented on every iteration, accepted or not.  "Unknown" when it needs a
\* hash byte past the MaxCounter bytes env fixes.
RECURSIVE reference_loop(_, _, _, _, _, _)
reference_loop(s, ctx, e, active, i, out) ==
    IF ~(Len(out) < ctx.sync_committee_size)
    THEN [kind |-> "Ok", err |-> "none", indices |-> out]
    ELSE IF i >= MaxCounter
    THEN [kind |-> "Unknown", err |-> "none", indices |-> out]
    ELSE reference_loop(s, ctx, e, active, i + 1,
                        sample_candidate(s, ctx, e, active, i, out).out)

reference_sync_committee_indices(s, ctx, e) ==
    LET epoch == get_current_epoch(s, ctx) + 1
        active_validator_indices == get_active_validator_indices(s, epoch)
    IN  IF Len(active_validator_indices) = 0
        THEN [kind |-> "Err", err |-> "EmptyActiveSet", indices |-> <<>>]
        ELSE reference_loop(s, ctx, e, active_validator_indices, 0, <<>>)

\* eth_aggregate_pubkeys: fails on empty or malformed input; the aggregate is
\* determined by the keys given, which stand for it here
eth_aggregate_pubkeys(keys) ==
    IF keys = <<>> \/ \E k \in 1 .. Len(keys) : ~keys[k].wellformed
    THEN [ok |-> FALSE, value |-> <<>>]
    ELSE [ok |-> TRUE, value |-> keys]

\* state.validators.iter().enumerate().filter_map(|(i, v)| indices.contains(&i) ...)
collect_public_keys(s, indices) ==
    LET chosen == SortedSeq({i \in DOMAIN s.validators : i \in SeqToSet(indices)})
    IN  [k \in 1 .. Len(chosen) |-> s.validators[chosen[k]].public_key]

\* Vector::<_, SYNC_COMMITTEE_SIZE>::from_iter is the ssz_rs library's: given
\* another number of keys than SYNC_COMMITTEE_SIZE it either keeps the keys it
\* was given or aborts (strict_vector), depending on the library's version
get_next_sync_committee(s, ctx, e, strict_vector) ==
    LET got == get_next_sync_committee_indices(s, ctx, e)
        public_keys == collect_public_keys(s, got.indices)
        aggregate_public_key == eth_aggregate_pubkeys(public_keys)
        base == [kind |-> got.kind, err |-> got.err, indices |-> got.indices,
                 public_keys |-> <<>>, aggregate |-> <<>>]
    IN  IF got.kind # "Ok" THEN base
        ELSE IF ~aggregate_public_key.ok
        THEN [base EXCEPT !.kind = "Panic",
                          !.err = "validator public_keys should be aggregated into aggregate_public_key"]
        ELSE IF strict_vector /\ Len(public_keys) # ctx.sync_committee_size
        THEN [base EXCEPT !.kind = "Panic", !.err = "vector length"]
        ELSE [base EXCEPT !.public_keys = public_keys,
                          !.aggregate = aggregate_public_key.value]

(***************************************************************************)
(* RewardPenaltyEngine.                                                    *)
(***************************************************************************)
get_base_reward_per_increment(s, ctx) ==
    (ctx.effective_balance_increment * ctx.base_reward_factor)
        \div integer_sqrt(get_total_active_balance(s, ctx))

get_base_reward(s, index, ctx) ==
    LET increments == s.validators[index].effective_balance \div ctx.effective_balance_increment
    IN  increments * get_base_reward_per_increment(s, ctx)

\* unslashed_among without the test of v.slashed
unslashed_among_keeping_slashed(s, participating_indices) ==
    {i \in DOMAIN s.validators : i \in SeqToSet(participating_indices)}

\* .filter_map(|(i, v)| if !v.slashed { Some(i) } else { None })
\* .filter(|i| participating_indices.contains(i)) over state.validators
unslashed_among(s, participating_indices) ==
    {i \in DOMAIN s.validators :
        ~s.validators[i].slashed /\ i \in SeqToSet(participating_indices)}

get_unslashed_participating_indices(s, flag_index, epoch, ctx) ==
    LET previous_epoch == get_previous_epoch(s, ctx)
        current_epoch == get_current_epoch(s, ctx)
        epoch_participation ==
            IF epoch = current_epoch
            THEN s.current_epoch_participation
            ELSE s.previous_epoch_participation
        active_validator_indices == get_active_validator_indices(s, epoch)
        participating_indices ==
            SelectSeq(active_validator_indices,
                      LAMBDA i : has_flag(epoch_participation[i], flag_index))
    IN  IF previous_epoch # epoch /\ current_epoch # epoch
        THEN [ok |-> FALSE, err |-> "InvalidEpoch", set |-> {}]
        ELSE [ok |-> TRUE, err |-> "none", set |-> unslashed_among(s, participating_indices)]

\* matching_head without the dependency on the target match
matching_head_alone(is_matching_target, data, head_root) ==
    data.beacon_block_root = head_root

\* is_matching_head: is_matching_target && data.beacon_block_root == root at data.slot
matching_head(is_matching_target, data, head_root) ==
    is_matching_target /\ data.beacon_block_root = head_root

get_attestation_participation_flag_indices(s, data, inclusion_delay, ctx) ==
    LET justified_checkpoint ==
            IF data.target.epoch = get_current_epoch(s, ctx)
            THEN s.current_justified_checkpoint
            ELSE s.previous_justified_checkpoint
        is_matching_source == data.source = justified_checkpoint
        target_root == get_block_root(s, data.target.epoch, ctx)
        head_root == get_block_root_at_slot(s, data.slot, ctx)
        is_matching_target == is_matching_source /\ data.target.root = target_root.value
        is_matching_head == matching_head(is_matching_target, data, head_root.value)
        source_flag ==
            IF is_matching_source /\ inclusion_delay <= integer_sqrt(ctx.slots_per_epoch)
            THEN <<TIMELY_SOURCE_FLAG_INDEX>> ELSE <<>>
        target_flag ==
            IF is_matching_target /\ inclusion_delay <= ctx.slots_per_epoch
            THEN <<TIMELY_TARGET_FLAG_INDEX>> ELSE <<>>
        head_flag ==
            IF is_matching_head /\ inclusion_delay = ctx.min_attestation_inclusion_delay
            THEN <<TIMELY_HEAD_FLAG_INDEX>> ELSE <<>>
    IN  IF ~is_matching_source
        THEN [ok |-> FALSE, err |-> "InvalidSource", flags |-> <<>>]
        ELSE IF ~target_root.ok \/ ~head_root.ok
        THEN [ok |-> FALSE, err |-> "SlotOutOfRange", flags |-> <<>>]
        ELSE [ok |-> TRUE, err |-> "none", flags |-> source_flag \o target_flag \o head_flag]

\* flag_index_delta without the test of the inactivity leak
flag_index_delta_ignoring_leak(s, ctx, flag_index, index, unslashed_participating_indices) ==
    LET weight == PARTICIPATION_FLAG_WEIGHTS[flag_index + 1]
        unslashed_participating_increments ==
            get_total_balance(s, unslashed_participating_indices, ctx)
                \div ctx.effective_balance_increment
        active_increments ==
            get_total_active_balance(s, ctx) \div ctx.effective_balance_increment
        reward_numerator ==
            get_base_reward(s, index, ctx) * weight * unslashed_participating_increments
    IN  IF index \in unslashed_participating_indices
        THEN [reward |-> reward_numerator \div (active_increments * WEIGHT_DENOMINATOR),
              penalty |-> 0]
        ELSE [reward |-> 0, penalty |-> 0]

\* the body of the loop over the eligible indices for one index: the reward and
\* the penalty added to rewards[index] and penalties[index]
flag_index_delta(s, ctx, flag_index, index, unslashed_participating_indices) ==
    LET weight == PARTICIPATION_FLAG_WEIGHTS[flag_index + 1]
        unslashed_participating_balance ==
            get_total_balance(s, unslashed_participating_indices, ctx)
        unslashed_participating_increments ==
            unslashed_participating_balance \div ctx.effective_balance_increment
        active_increments ==
            get_total_active_balance(s, ctx) \div ctx.effective_balance_increment
        base_reward == get_base_reward(s, index, ctx)
        reward_numerator == base_reward * weight * unslashed_participating_increments
    IN  IF index \in unslashed_participating_indices
        THEN IF ~is_in_inactivity_leak(s, ctx)
             THEN [reward |-> reward_numerator \div (active_increments * WEIGHT_DENOMINATOR),
                   penalty |-> 0]
             ELSE IF flag_index # TIMELY_HEAD_FLAG_INDEX
             THEN [reward |-> 0, penalty |-> (base_reward * weight) \div WEIGHT_DENOMINATOR]
             ELSE [reward |-> 0, penalty |-> 0]
        ELSE [reward |-> 0, penalty |-> 0]

get_flag_index_deltas(s, flag_index, ctx) ==
    LET validator_count == Cardinality(DOMAIN s.validators)
        previous_epoch == get_previous_epoch(s, ctx)
        unslashed_participating_indices ==
            get_unslashed_participating_indices(s, flag_index, previous_epoch, ctx)
        eligible == SeqToSet(get_eligible_validator_indices(s, ctx))
        delta(index) ==
            flag_index_delta(s, ctx, flag_index, index, unslashed_participating_indices.set)
    IN  IF ~unslashed_participating_indices.ok
        THEN [kind |-> "Err", err |-> unslashed_participating_indices.err,
              rewards |-> <<>>, penalties |-> <<>>]
        ELSE IF flag_index + 1 > Len(PARTICIPATION_FLAG_WEIGHTS)
        THEN [kind |-> "Panic", err |-> "index out of bounds",
              rewards |-> <<>>, penalties |-> <<>>]
        ELSE [kind |-> "Ok", err |-> "none",
              rewards |-> [i \in 0 .. (validator_count - 1) |->
                              IF i \in eligible THEN delta(i).reward ELSE 0],
              penalties |-> [i \in 0 .. (validator_count - 1) |->
                              IF i \in eligible THEN delta(i).penalty ELSE 0]]

(***************************************************************************)
(* SlashingProcessor.                                                      *)
(***************************************************************************)
\* slashing_penalty taken from the balance instead of the effective balance
slashing_penalty_of_balance(s, slashed_index, quotient) ==
    s.balances[slashed_index] \div quotient

\* the amount decrease_balance is called with:
\* state.validators[slashed_index].effective_balance / min_slashing_penalty_quotient
slashing_penalty(s, slashed_index, quotient) ==
    s.validators[slashed_index].effective_balance \div quotient

\* proposer_reward_scaling_factor = PROPOSER_WEIGHT / WEIGHT_DENOMINATOR (u64
\* division); proposer_reward = whistleblower_reward * proposer_reward_scaling_factor
proposer_reward_of(whistleblower_reward) ==
    LET proposer_reward_scaling_factor == PROPOSER_WEIGHT \div WEIGHT_DENOMINATOR
    IN  whistleblower_reward * proposer_reward_scaling_factor

\* whistleblower_index is -1 for None.  The state is mutated in place: on an
\* error the caller is left with the state as mutated up to the `?` that failed
slash_validator(s, slashed_index, whistleblower_index, ctx, e) ==
    LET epoch == get_current_epoch(s, ctx)
        s1 == initiate_validator_exit(s, slashed_index, ctx)
        s2 == [s1 EXCEPT !.validators[slashed_index].slashed = TRUE]
        s3 == [s2 EXCEPT !.validators[slashed_index].withdrawable_epoch =
                            Max(@, epoch + ctx.epochs_per_slashings_vector)]
        slashings_index == epoch % Cardinality(DOMAIN s.slashings)
        s4 == [s3 EXCEPT !.slashings[slashings_index] =
                            @ + s3.validators[slashed_index].effective_balance]
        quotient == min_slashing_penalty_quotient(ctx, epoch)
        s5 == decrease_balance(s4, slashed_index,
                               slashing_penalty(s4, slashed_index, quotient.value))
        proposer_index == get_beacon_proposer_index(s5, ctx, e)
        whistleblower ==
            IF whistleblower_index = -1 THEN proposer_index.value ELSE whistleblower_index
        whistleblower_reward ==
            s5.validators[slashed_index].effective_balance \div ctx.whistleblower_reward_quotient
        proposer_reward == proposer_reward_of(whistleblower_reward)
        s6 == increase_balance(s5, proposer_index.value, proposer_reward)
        s7 == increase_balance(s6, whistleblower, whistleblower_reward - proposer_reward)
    IN  IF ~quotient.ok THEN [kind |-> "Err", err |-> "ForkConfigError", state |-> s4]
        ELSE IF ~proposer_index.ok THEN [kind |-> "Err", err |-> "NoProposer", state |-> s5]
        ELSE [kind |-> "Ok", err |-> "none", state |-> s7]

(***************************************************************************)
(* Registry, context and environment of the model.                         *)
(***************************************************************************)
PublicKey(i, wellformed) == [owner |-> i, wellformed |-> wellformed]

Validator(i, effective_balance, slashed, activation_epoch, exit_epoch, withdrawable_epoch, wellformed) ==
    [public_key |-> PublicKey(i, wellformed),
     effective_balance |-> effective_balance,
     slashed |-> slashed,
     activation_epoch |-> activation_epoch,
     exit_epoch |-> exit_epoch,
     withdrawable_epoch |-> withdrawable_epoch]

Checkpoint(epoch, root) == [epoch |-> epoch, root |-> root]

BaseContext ==
    [slots_per_epoch |-> 4,
     slots_per_historical_root |-> 8,
     min_attestation_inclusion_delay |-> 1,
     sync_committee_size |-> 2,
     max_effective_balance |-> 32,
     effective_balance_increment |-> 1,
     base_reward_factor |-> 64,
     epochs_per_slashings_vector |-> 2,
     min_epochs_to_inactivity_penalty |-> 1,
     min_slashing_penalty_quotient |-> 2,
     whistleblower_reward_quotient |-> 4,
     max_seed_lookahead |-> 1,
     min_per_epoch_churn_limit |-> 4,
     min_validator_withdrawability_delay |-> 1]

BaseState ==
    [slot |-> 0,
     validators |-> [i \in ValidatorIndices |->
                        Validator(i, 32, FALSE, 0, FAR_FUTURE_EPOCH, FAR_FUTURE_EPOCH, TRUE)],
     balances |-> [i \in ValidatorIndices |-> 32],
     previous_epoch_participation |-> [i \in ValidatorIndices |-> 0],
     current_epoch_participation |-> [i \in ValidatorIndices |-> 0],
     slashings |-> [k \in 0 .. 1 |-> 0],
     previous_justified_checkpoint |-> Checkpoint(0, 0),
     current_justified_checkpoint |-> Checkpoint(0, 0),
     finalized_checkpoint |-> Checkpoint(0, 0),
     block_roots |-> [k \in 0 .. 7 |-> 0]]

BaseEnv ==
    [perm |-> [k \in 0 .. (NumValidators - 1) |-> k],
     rand |-> [k \in 0 .. (MaxCounter - 1) |-> 0],
     proposer |-> 0]

(***************************************************************************)
(* The sync-committee specification: any registry of NumValidators          *)
(* validators, any shuffle and any hash bytes; the selector is called.     *)
(***************************************************************************)
InitSync ==
    /\ \E eb \in [ValidatorIndices -> {16, 32}],
          act \in [ValidatorIndices -> {0, FAR_FUTURE_EPOCH}],
          wf \in [ValidatorIndices -> BOOLEAN] :
          state = [BaseState EXCEPT
                     !.validators = [i \in ValidatorIndices |->
                        Validator(i, eb[i], FALSE, act[i], FAR_FUTURE_EPOCH, FAR_FUTURE_EPOCH, wf[i])]]
    /\ \E size \in {1, 2} : context = [BaseContext EXCEPT !.sync_committee_size = size]
    /\ \E p \in Permutations0(Len(get_active_validator_indices(state, get_current_epoch(state, context) + 1))),
          r \in [0 .. (MaxCounter - 1) -> {0, 255}] :
          env = [BaseEnv EXCEPT !.perm = p, !.rand = r]
    /\ ret = NoCall
    /\ pre = state

CallNextSyncCommitteeIndices ==
    /\ ret.op = "none"
    /\ LET got == get_next_sync_committee_indices(state, context, env)
       IN  ret' = [NoCall EXCEPT !.op = "get_next_sync_committee_indices",
                                 !.kind = got.kind, !.err = got.err,
                                 !.indices = got.indices]
    /\ pre' = state
    /\ UNCHANGED <<state, context, env>>

CallNextSyncCommittee ==
    /\ ret.op = "none"
    /\ \E strict_vector \in BOOLEAN :
          LET got == get_next_sync_committee(state, context, env, strict_vector)
          IN  ret' = [NoCall EXCEPT !.op = "get_next_sync_committee",
                                    !.kind = got.kind, !.err = got.err,
                                    !.indices = got.indices,
                                    !.public_keys = got.public_keys,
                                    !.aggregate = got.aggregate]
    /\ pre' = state
    /\ UNCHANGED <<state, context, env>>

NextSync == CallNextSyncCommitteeIndices \/ CallNextSyncCommittee

SpecSync == InitSync /\ [][NextSync]_vars

\* the active set of the epoch the selector samples for
NextEpochActive == get_active_validator_indices(state, get_current_epoch(state, context) + 1)

\* C1: for a non-empty active set of epoch current_epoch+1,
\* get_next_sync_committee_indices returns (it terminates, with Ok) exactly
\* sync_committee_size entries, each a validator index < validator_count.
C1_TerminatesWithFullCommittee ==
    (ret.op = "get_next_sync_committee_indices" /\ Len(NextEpochActive) > 0)
        => /\ ret.kind = "Ok"
           /\ Len(ret.indices) = context.sync_committee_size
           /\ \A k \in 1 .. Len(ret.indices) : ret.indices[k] \in 0 .. (NumValidators - 1)

\* C2: whenever get_next_sync_committee_indices and the reference rejection
\* sampler (counter incremented on every iteration) both return, they return the
\* same sequence.
C2_EqualsReferenceSampler ==
    (/\ ret.op = "get_next_sync_committee_indices"
     /\ ret.kind = "Ok"
     /\ reference_sync_committee_indices(state, context, env).kind = "Ok")
        => ret.indices = reference_sync_committee_indices(state, context, env).indices

\* the keys of the sampled indices, in sampling order and with their repeats
SampledKeys ==
    LET indices == get_next_sync_committee_indices(state, context, env).indices
    IN  [k \in 1 .. Len(indices) |-> state.validators[indices[k]].public_key]

\* C3: when the sampling returns and the sampled validators' keys aggregate,
\* get_next_sync_committee returns a SyncCommittee with exactly
\* sync_committee_size public keys, the k-th being the key of the k-th sampled
\* index, and the aggregated key is made from that same sequence.
C3_KeysFollowSampledIndices ==
    (/\ ret.op = "get_next_sync_committee"
     /\ get_next_sync_committee_indices(state, context, env).kind = "Ok"
     /\ eth_aggregate_pubkeys(SampledKeys).ok)
        => /\ ret.kind = "Ok"
           /\ Len(ret.public_keys) = context.sync_committee_size
           /\ ret.public_keys = SampledKeys
           /\ ret.aggregate = SampledKeys

\* C7: an empty active set makes get_next_sync_committee_indices return the
\* error EmptyActiveSet, and a rejected key aggregation makes
\* get_next_sync_committee return the error AggregationError; neither aborts.
C7_TypedErrors ==
    /\ (ret.op = "get_next_sync_committee_indices" /\ Len(NextEpochActive) = 0)
          => (ret.kind = "Err" /\ ret.err = "EmptyActiveSet")
    /\ (/\ ret.op = "get_next_sync_committee"
        /\ get_next_sync_committee_indices(state, context, env).kind = "Ok"
        /\ ~eth_aggregate_pubkeys(collect_public_keys(
                state, get_next_sync_committee_indices(state, context, env).indices)).ok)
          => (ret.kind = "Err" /\ ret.err = "AggregationError")

(***************************************************************************)
(* The participation specification: registries whose validators differ in  *)
(* activity, slashing and participation flags; the query is called with    *)
(* any flag index and any epoch around the current one.                    *)
(***************************************************************************)
\* <<activation_epoch, exit_epoch, slashed>>
ParticipationProfiles ==
    {<<0, FAR_FUTURE_EPOCH, FALSE>>, <<0, FAR_FUTURE_EPOCH, TRUE>>,
     <<FAR_FUTURE_EPOCH, FAR_FUTURE_EPOCH, FALSE>>, <<0, 2, FALSE>>}

\* <<previous_epoch_participation, current_epoch_participation>> of a validator
ParticipationPairs == {<<2, 5>>, <<5, 2>>, <<7, 0>>}

InitParticipation ==
    /\ \E prof \in [ValidatorIndices -> ParticipationProfiles],
          part \in [ValidatorIndices -> ParticipationPairs],
          slot \in {0, 4, 8} :
          state = [BaseState EXCEPT
                     !.slot = slot,
                     !.validators = [i \in ValidatorIndices |->
                        Validator(i, 32, prof[i][3], prof[i][1], prof[i][2], FAR_FUTURE_EPOCH, TRUE)],
                     !.previous_epoch_participation = [i \in ValidatorIndices |-> part[i][1]],
                     !.current_epoch_participation = [i \in ValidatorIndices |-> part[i][2]]]
    /\ context = BaseContext
    /\ env = BaseEnv
    /\ ret = NoCall
    /\ pre = state

CallUnslashedParticipatingIndices ==
    /\ ret.op = "none"
    /\ \E flag_index \in FlagIndices, epoch \in 0 .. 3 :
          LET got == get_unslashed_participating_indices(state, flag_index, epoch, context)
          IN  ret' = [NoCall EXCEPT !.op = "get_unslashed_participating_indices",
                                    !.kind = IF got.ok THEN "Ok" ELSE "Err",
                                    !.err = got.err,
                                    !.set = got.set,
                                    !.flag_index = flag_index,
                                    !.epoch = epoch]
    /\ pre' = state
    /\ UNCHANGED <<state, context, env>>

SpecParticipation == InitParticipation /\ [][CallUnslashedParticipatingIndices]_vars

\* bit b of the unsigned value flags
Bit(flags, b) == (flags \div Pow2(b)) % 2

\* the participation sequence the claim names for the queried epoch
ParticipationOf(epoch) ==
    IF epoch = get_current_epoch(state, context)
    THEN state.current_epoch_participation
    ELSE state.previous_epoch_participation

\* C9: get_unslashed_participating_indices fails with InvalidEpoch exactly when
\* epoch is neither the previous nor the current epoch; otherwise it returns
\* exactly the validators active in epoch, with bit flag_index set in that
\* epoch's participation sequence, and not slashed.
C9_UnslashedParticipating ==
    ret.op = "get_unslashed_participating_indices"
        => LET valid == ret.epoch \in {get_previous_epoch(state, context),
                                       get_current_epoch(state, context)}
           IN  /\ ~valid => (ret.kind = "Err" /\ ret.err = "InvalidEpoch")
               /\ valid =>
                    /\ ret.kind = "Ok"
                    /\ ret.set = {i \in 0 .. (NumValidators - 1) :
                                    /\ state.validators[i].activation_epoch <= ret.epoch
                                    /\ ret.epoch < state.validators[i].exit_epoch
                                    /\ Bit(ParticipationOf(ret.epoch)[i], ret.flag_index) = 1
                                    /\ state.validators[i].slashed = FALSE}

\* a query of the previous epoch (not the current one) that returns a validator
\* and leaves out a slashed active validator whose flag bit is set
C9_Witness ==
    /\ ret.op = "get_unslashed_participating_indices"
    /\ ret.kind = "Ok"
    /\ ret.epoch # get_current_epoch(state, context)
    /\ ret.set # {}
    /\ \E i \in 0 .. (NumValidators - 1) :
          /\ state.validators[i].slashed
          /\ is_active_validator(state.validators[i], ret.epoch)
          /\ Bit(state.previous_epoch_participation[i], ret.flag_index) = 1
          /\ i \notin ret.set

(***************************************************************************)
(* The deltas specification: registries whose validators differ in         *)
(* eligibility, slashing, balance and previous-epoch participation, with   *)
(* and without an inactivity leak.                                         *)
(***************************************************************************)
\* <<activation_epoch, exit_epoch, withdrawable_epoch, slashed, effective_balance>>
DeltaProfiles ==
    {<<0, FAR_FUTURE_EPOCH, FAR_FUTURE_EPOCH, FALSE, 32>>,
     <<0, FAR_FUTURE_EPOCH, FAR_FUTURE_EPOCH, FALSE, 16>>,
     <<0, 5, 9, TRUE, 32>>,
     <<0, 1, 9, TRUE, 16>>,
     <<FAR_FUTURE_EPOCH, FAR_FUTURE_EPOCH, FAR_FUTURE_EPOCH, FALSE, 32>>}

InitDeltas ==
    /\ \E prof \in [ValidatorIndices -> DeltaProfiles],
          part \in [ValidatorIndices -> {0, 2, 7}],
          finalized \in {0, 2} :
          state = [BaseState EXCEPT
                     !.slot = 12,
                     !.finalized_checkpoint = Checkpoint(finalized, 0),
                     !.validators = [i \in ValidatorIndices |->
                        Validator(i, prof[i][5], prof[i][4], prof[i][1], prof[i][2], prof[i][3], TRUE)],
                     !.previous_epoch_participation = [i \in ValidatorIndices |-> part[i]],
                     !.current_epoch_participation = [i \in ValidatorIndices |-> 7 - part[i]]]
    /\ context = BaseContext
    /\ env = BaseEnv
    /\ ret = NoCall
    /\ pre = state

CallFlagIndexDeltas ==
    /\ ret.op = "none"
    /\ \E flag_index \in 0 .. 3 :
          LET got == get_flag_index_deltas(state, flag_index, context)
          IN  ret' = [NoCall EXCEPT !.op = "get_flag_index_deltas",
                                    !.kind = got.kind,
                                    !.err = got.err,
                                    !.rewards = got.rewards,
                                    !.penalties = got.penalties,
                                    !.flag_index = flag_index]
    /\ pre' = state
    /\ UNCHANGED <<state, context, env>>

SpecDeltas == InitDeltas /\ [][CallFlagIndexDeltas]_vars

\* the eligible-validator set of the state
EligibleSet == SeqToSet(get_eligible_validator_indices(state, context))

\* C8: the rewards and penalties get_flag_index_deltas returns both have
\* length validator_count and are 0 outside the eligible set; in an inactivity
\* leak all rewards are 0, and for the HEAD flag all penalties are 0 too.
C8_FlagIndexDeltas ==
    (ret.op = "get_flag_index_deltas" /\ ret.kind = "Ok")
        => /\ DOMAIN ret.rewards = 0 .. (NumValidators - 1)
           /\ DOMAIN ret.penalties = 0 .. (NumValidators - 1)
           /\ \A i \in (0 .. (NumValidators - 1)) \ EligibleSet :
                 ret.rewards[i] = 0 /\ ret.penalties[i] = 0
           /\ is_in_inactivity_leak(state, context)
                 => /\ \A i \in 0 .. (NumValidators - 1) : ret.rewards[i] = 0
                    /\ ret.flag_index = TIMELY_HEAD_FLAG_INDEX
                          => \A i \in 0 .. (NumValidators - 1) : ret.penalties[i] = 0

\* deltas computed in an inactivity leak: a validator is penalised, and a
\* validator outside the eligible set has the flag bit set
C8_Witness ==
    /\ ret.op = "get_flag_index_deltas"
    /\ ret.kind = "Ok"
    /\ is_in_inactivity_leak(state, context)
    /\ \E i \in 0 .. (NumValidators - 1) : ret.penalties[i] > 0
    /\ \E j \in (0 .. (NumValidators - 1)) \ EligibleSet :
          Bit(state.previous_epoch_participation[j], ret.flag_index) = 1

(***************************************************************************)
(* The attestation specification: a chain with distinct block roots and    *)
(* justified checkpoints; any attestation data and inclusion delay.        *)
(***************************************************************************)
InitAttestation ==
    /\ \E slot \in {5, 9, 13} :
          state = [BaseState EXCEPT
                     !.slot = slot,
                     !.block_roots = [k \in 0 .. 7 |-> 10 + k],
                     !.previous_justified_checkpoint = Checkpoint(0, 20),
                     !.current_justified_checkpoint = Checkpoint(1, 21)]
    /\ \E min_delay \in {1, 5} :
          context = [BaseContext EXCEPT !.min_attestation_inclusion_delay = min_delay]
    /\ env = BaseEnv
    /\ ret = NoCall
    /\ pre = state

\* the root the chain holds for slot (0 when it holds none)
RootAt(slot) == get_block_root_at_slot(state, slot, context).value

CallAttestationParticipationFlagIndices ==
    /\ ret.op = "none"
    /\ \E slot \in 0 .. state.slot,
          target_epoch \in 0 .. (get_current_epoch(state, context) + 1),
          head_right \in BOOLEAN, target_right \in BOOLEAN,
          source \in {state.current_justified_checkpoint,
                      state.previous_justified_checkpoint, Checkpoint(0, 0)},
          inclusion_delay \in 0 .. (context.slots_per_epoch + 1) :
          LET data == [slot |-> slot,
                       beacon_block_root |-> IF head_right THEN RootAt(slot) ELSE 0,
                       source |-> source,
                       target |-> Checkpoint(target_epoch,
                                    IF target_right
                                    THEN RootAt(target_epoch * context.slots_per_epoch)
                                    ELSE 0)]
              got == get_attestation_participation_flag_indices(
                        state, data, inclusion_delay, context)
          IN  ret' = [NoCall EXCEPT !.op = "get_attestation_participation_flag_indices",
                                    !.kind = IF got.ok THEN "Ok" ELSE "Err",
                                    !.err = got.err,
                                    !.flags = got.flags,
                                    !.data = data,
                                    !.inclusion_delay = inclusion_delay]
    /\ pre' = state
    /\ UNCHANGED <<state, context, env>>

SpecAttestation == InitAttestation /\ [][CallAttestationParticipationFlagIndices]_vars

FlagPresent(f) == \E k \in 1 .. Len(ret.flags) : ret.flags[k] = f

\* C4 as claimed: in every Ok result HEAD present implies TARGET present, and
\* TARGET present implies SOURCE present, for every inclusion delay.
C4_HeadTargetSourceOrdering ==
    (ret.op = "get_attestation_participation_flag_indices" /\ ret.kind = "Ok")
        => /\ FlagPresent(TIMELY_HEAD_FLAG_INDEX) => FlagPresent(TIMELY_TARGET_FLAG_INDEX)
           /\ FlagPresent(TIMELY_TARGET_FLAG_INDEX) => FlagPresent(TIMELY_SOURCE_FLAG_INDEX)

\* C4 (amended): in every Ok result HEAD present implies TARGET present when
\* min_attestation_inclusion_delay <= slots_per_epoch, and TARGET present implies
\* SOURCE present when inclusion_delay <= floor(sqrt(slots_per_epoch)).
C4_OrderingWithinSourceDelay ==
    (ret.op = "get_attestation_participation_flag_indices" /\ ret.kind = "Ok")
        => /\ (/\ FlagPresent(TIMELY_HEAD_FLAG_INDEX)
               /\ context.min_attestation_inclusion_delay <= context.slots_per_epoch)
                 => FlagPresent(TIMELY_TARGET_FLAG_INDEX)
           /\ (/\ FlagPresent(TIMELY_TARGET_FLAG_INDEX)
               /\ ret.inclusion_delay * ret.inclusion_delay <= context.slots_per_epoch)
                 => FlagPresent(TIMELY_SOURCE_FLAG_INDEX)

\* an attestation included with the minimal delay that earns all three flags
C4_Witness ==
    /\ ret.op = "get_attestation_participation_flag_indices"
    /\ ret.kind = "Ok"
    /\ ret.inclusion_delay = context.min_attestation_inclusion_delay
    /\ FlagPresent(TIMELY_HEAD_FLAG_INDEX)
    /\ FlagPresent(TIMELY_TARGET_FLAG_INDEX)
    /\ FlagPresent(TIMELY_SOURCE_FLAG_INDEX)

(***************************************************************************)
(* The slashing specification: validators with a full or a nearly empty    *)
(* balance, a context with or without a slashing quotient, a chain with or *)
(* without a proposer; validators are slashed one call after the other.    *)
(***************************************************************************)
\* <<effective_balance, balance>>
SlashProfiles == {<<32, 32>>, <<16, 3>>}

InitSlash ==
    /\ \E prof \in [ValidatorIndices -> SlashProfiles] :
          state = [BaseState EXCEPT
                     !.slot = 4,
                     !.validators = [i \in ValidatorIndices |->
                        Validator(i, prof[i][1], FALSE, 0, FAR_FUTURE_EPOCH, FAR_FUTURE_EPOCH, TRUE)],
                     !.balances = [i \in ValidatorIndices |-> prof[i][2]]]
    /\ \E quotient \in {0, 2} :
          context = [BaseContext EXCEPT !.min_slashing_penalty_quotient = quotient]
    /\ \E proposer \in {-1} \cup ValidatorIndices :
          env = [BaseEnv EXCEPT !.proposer = proposer]
    /\ ret = NoCall
    /\ pre = state

SlashValidator ==
    /\ ret.calls < MaxSlashCalls
    /\ \E slashed_index \in ValidatorIndices,
          whistleblower_index \in {-1} \cup ValidatorIndices :
          LET got == slash_validator(state, slashed_index, whistleblower_index, context, env)
          IN  /\ state' = got.state
              /\ ret' = [NoCall EXCEPT !.op = "slash_validator",
                                       !.kind = got.kind,
                                       !.err = got.err,
                                       !.slashed_index = slashed_index,
                                       !.whistleblower_index = whistleblower_index,
                                       !.calls = ret.calls + 1]
    /\ pre' = state
    /\ UNCHANGED <<context, env>>

SpecSlash == InitSlash /\ [][SlashValidator]_vars

\* the call ret describes: the whistleblower credited, the penalty and the
\* rewards the claims name
Whistleblower ==
    IF ret.whistleblower_index = -1 THEN env.proposer ELSE ret.whistleblower_index
Penalty ==
    pre.validators[ret.slashed_index].effective_balance
        \div context.min_slashing_penalty_quotient
WhistleblowerReward ==
    pre.validators[ret.slashed_index].effective_balance
        \div context.whistleblower_reward_quotient
ClaimedProposerReward == (WhistleblowerReward * PROPOSER_WEIGHT) \div WEIGHT_DENOMINATOR
SlashOk == ret.op = "slash_validator" /\ ret.kind = "Ok"

C10_ErrorLeavesStateUnchanged ==
    (ret.op = "slash_validator" /\ ret.kind = "Err") => state = pre

====
